---- MODULE Spec2Model ----
(***************************************************************************)
(* Head-tilt vocabulary quiz: the camera module (camera.js), the quiz      *)
(* session of main.js and the feedback timers of effects.js, as one state  *)
(* machine.  Every event-loop task of the page (a click, a key press, a    *)
(* timer callback, a settled promise with the continuation it resumes, a   *)
(* camera frame, a detector result) is one action.  Time is counted in     *)
(* steps of TickMs milliseconds; a timer never fires before its delay has  *)
(* elapsed and is run before the clock moves past it.                      *)
(***************************************************************************)
EXTENDS Integers, Sequences, FiniteSets, Bags, TLC

\* ---------------------------------------------------------------- bounds
TickMs == 300
MaxQuestions == 2
MaxHsg == 2
MaxGame == 2
MaxLeaked == 1
MaxTierTotal == 20
MaxPending == 2
MaxStored == 3
MaxKeptUnits == 2
MaxKeptQuestions == 2

\* ------------------------------------------------------ program constants
TILT_THRESHOLD == 12
DEBOUNCE_MS == 800
START_DELAY_MS == 300
SCORE_DELAY_MS == 300
CORRECT_FEEDBACK_MS == 1500
WRONG_FEEDBACK_MS == 1200

VARIABLES
  state,              \* main.js: the `state` object (session fields)
  finalResult,        \* main.js: what endGame rendered for this session, or NoResult
  allowStage,         \* main.js: handleAllowCamera in flight ("idle" = button enabled)
  hsgQuery,           \* main.js: handleStartGame calls awaiting permissions.query
  faceMesh,           \* camera.js: module slot faceMesh is non-null
  camera,             \* camera.js: module slot camera, with the capture's status
  isTracking,         \* camera.js
  onTiltCallback,     \* camera.js
  tiltDebounceTimer,  \* camera.js: NoTimer, or ms left of the pending timeout
  windowFaceMesh,     \* window.FaceMesh is loaded
  windowCamera,       \* window.Camera is loaded
  localStorage,       \* questions.js: the items under STORAGE_KEY and LEGACY_STORAGE_KEY
  defaultQuestions,   \* questions.js: the imported questions.json
  slotWaiter,         \* who awaits the start() of the camera in the slot
  orphans,            \* bag: awaiters of start() of cameras no longer in the slot
  leaked,             \* number of superseded cameras whose stream is active (capped)
  inflight,           \* detector result dispatched and not yet delivered
  timers,             \* bag of pending setTimeout callbacks of main.js/effects.js
  sinceEmit,          \* ms since the registered callback was last invoked (capped)
  lastEmit,           \* ms since any callback was invoked, if under DEBOUNCE_MS
  lastSet,            \* the last setTiltCallback argument, "null" once cleared
  replaced,           \* the callback the last setTiltCallback call displaced
  acceptedAt,         \* per question of the session, the gestures accepted for it
  calls,              \* handleStartGame and startGame calls since the page loaded
  ev                  \* the task the last step ran

vars == <<state, finalResult, allowStage, hsgQuery, faceMesh, camera, isTracking,
          onTiltCallback, tiltDebounceTimer, windowFaceMesh, windowCamera,
          localStorage, defaultQuestions, slotWaiter, orphans, leaked, inflight, timers, sinceEmit, lastEmit,
          lastSet, replaced, acceptedAt, calls, ev>>

camVars == <<faceMesh, camera, isTracking, onTiltCallback, tiltDebounceTimer,
             slotWaiter, orphans, inflight, sinceEmit, lastEmit, lastSet, replaced>>
envVars == <<windowFaceMesh, windowCamera, localStorage, defaultQuestions>>

\* localStorage.getItem returns null for a key that holds nothing; an item
\* that is held is the one-element sequence of its parsed value. The storage
\* is followed by StorageSpec; a session of the page takes its questions from
\* QuestionSeqs, every list getGameQuestions can return, whatever is stored
NoItem == <<>>
NothingStored == [data |-> NoItem, legacy |-> NoItem]

\* questions.json as { units, questions }: every bundled question names its
\* unit and has its three texts (kept as one text)
DEFAULT_UNIT_NAME == "Supper Kid"
NoDefaults == [units |-> <<>>, questions |-> <<>>]
BundledQuestions ==
  [units |-> <<[name |-> DEFAULT_UNIT_NAME]>>,
   questions |-> <<[unit |-> DEFAULT_UNIT_NAME, text |-> "a", disabled |-> FALSE]>>]

NoTimer == -1
NoResult == [totalAnswered |-> -1, score |-> -1, tier |-> "none",
             percentage |-> [num |-> 0, den |-> 1]]
NoFace == 999
Angles == {-13, -12, 0, 12, 13}
Sides == {"left", "right"}

\* lastEmit when no callback was invoked in the last DEBOUNCE_MS
NotRecent == -1

Max(a, b) == IF a > b THEN a ELSE b
Min(a, b) == IF a < b THEN a ELSE b

\* prepareQuestion keeps, of a question, the side holding the correct answer
QuestionSeqs == UNION {[1..n -> Sides] : n \in 0..MaxQuestions}

\* a pending setTimeout: its callback (kind, with the isCorrect it closed
\* over) and the ms left; for the record, the gesture and question it stems
\* from (dir, side, q), the session that scheduled it (g) and whether endGame
\* has run since (ended)
Timer(kind, rem, correct, dir, side, q, g, ended) ==
  [kind |-> kind, rem |-> rem, correct |-> correct, dir |-> dir, side |-> side,
   q |-> q, g |-> g, ended |-> ended]

\* the awaiter of an initFaceTracking promise, with the same record fields
Waiter(who, g) == [who |-> who, g |-> g, ended |-> FALSE]
NoWaiter == Waiter("none", 0)

Ended(x) == [x EXCEPT !.ended = TRUE]
EndedGame(w) == IF w.who = "game" THEN Ended(w) ELSE w
TickTimer(t) == [t EXCEPT !.rem = Max(0, t.rem - TickMs)]
Elapsed(e) == IF e = NotRecent \/ e + TickMs >= DEBOUNCE_MS THEN NotRecent
              ELSE e + TickMs

\* ------------------------------------------------------------- camera.js
Classify_inclusive(a) ==
  IF a <= -TILT_THRESHOLD THEN "right"
  ELSE IF a >= TILT_THRESHOLD THEN "left"
  ELSE "none"

\* processResults, lines 126-135: the tilt direction of an angle in degrees
Classify(a) ==
  IF a < -TILT_THRESHOLD THEN "right"
  ELSE IF a > TILT_THRESHOLD THEN "left"
  ELSE "none"

Direction_guessesLeft(a) == IF a = NoFace THEN "left" ELSE Classify(a)

\* processResults, lines 106-135: the direction of a detector result, whose
\* angle is NoFace when it carries no landmarks
Direction(a) == IF a = NoFace THEN "none" ELSE Classify(a)

DebounceOpen_unchecked == TRUE

\* processResults, line 142: `!tiltDebounceTimer`
DebounceOpen == tiltDebounceTimer = NoTimer

\* processResults, lines 149-151: the delay of the debounce timeout
DebounceDelay == DEBOUNCE_MS

TimerAfterSample_restarts(invoke) ==
  IF invoke \/ tiltDebounceTimer # NoTimer THEN DebounceDelay ELSE tiltDebounceTimer

TimerAfterSample_armsAlways(invoke) ==
  IF tiltDebounceTimer = NoTimer THEN DebounceDelay ELSE tiltDebounceTimer

\* processResults, lines 141-153: tiltDebounceTimer after a sample that did
\* (invoke) or did not invoke the callback
TimerAfterSample(invoke) == IF invoke THEN DebounceDelay ELSE tiltDebounceTimer

\* Camera.stop() on the object in the slot (third-party object: a capture
\* that has not started yet keeps starting, one that runs is released)
CameraStop(c) ==
  CASE c = "starting" -> "startingStopped"
    [] c = "running" -> "stopped"
    [] OTHER -> c

ClearTiltCallback_slotOnly ==
  /\ onTiltCallback' = "null"
  /\ tiltDebounceTimer' = tiltDebounceTimer
  /\ sinceEmit' = -1
  /\ lastSet' = "null"
  /\ replaced' = "null"
  /\ lastEmit' = lastEmit

\* clearTiltCallback, lines 240-247
ClearTiltCallback ==
  /\ onTiltCallback' = "null"
  /\ tiltDebounceTimer' = NoTimer
  /\ sinceEmit' = -1
  /\ lastSet' = "null"
  /\ replaced' = "null"
  /\ lastEmit' = lastEmit

SetTiltCallback_keepsTimer(cb) ==
  /\ onTiltCallback' = cb
  /\ tiltDebounceTimer' = tiltDebounceTimer
  /\ sinceEmit' = -1
  /\ lastSet' = cb
  /\ replaced' = onTiltCallback
  /\ lastEmit' = lastEmit

SetTiltCallback_keepsFirst(cb) ==
  /\ onTiltCallback' = IF onTiltCallback = "null" THEN cb ELSE onTiltCallback
  /\ tiltDebounceTimer' = NoTimer
  /\ sinceEmit' = -1
  /\ lastSet' = cb
  /\ replaced' = onTiltCallback
  /\ lastEmit' = lastEmit

\* setTiltCallback, lines 229-237
SetTiltCallback(cb) ==
  /\ onTiltCallback' = cb
  /\ tiltDebounceTimer' = NoTimer
  /\ sinceEmit' = -1
  /\ lastSet' = cb
  /\ replaced' = onTiltCallback
  /\ lastEmit' = lastEmit

\* the in-flight detector result once stopTracking has been invoked
InflightAfterStop(i) == IF i = "none" THEN "none" ELSE "stopped"

StopTracking_toggles ==
  /\ isTracking' = ~isTracking
  /\ ClearTiltCallback
  /\ camera' = CameraStop(camera)
  /\ inflight' = InflightAfterStop(inflight)

\* stopTracking, lines 250-256
StopTracking ==
  /\ isTracking' = FALSE
  /\ ClearTiltCallback
  /\ camera' = CameraStop(camera)
  /\ inflight' = InflightAfterStop(inflight)

\* the in-flight result of a detector that is being closed: the closed
\* detector may still deliver it or may drop it
InflightAfterClose(i) ==
  IF i = "none" THEN {"none"}
  ELSE {"none", i}

InitAcquires == windowFaceMesh /\ windowCamera

\* initFaceTracking, lines 13-85: everything up to camera.start()
\* (a camera stopped before its start() settled leaves that promise pending)
InitFaceTracking(w) ==
  /\ orphans' = IF camera \in {"starting", "startingStopped"}
                THEN orphans (+) SetToBag({slotWaiter}) ELSE orphans
  /\ inflight' \in (IF faceMesh THEN InflightAfterClose(inflight) ELSE {inflight})
  /\ isTracking' = FALSE
  /\ ClearTiltCallback
  /\ faceMesh' = windowFaceMesh
  /\ camera' = IF InitAcquires THEN "starting" ELSE "null"
  /\ slotWaiter' = IF InitAcquires THEN w ELSE NoWaiter

\* ---------------------------------------------------------------- main.js
ShowScreen(s, name) == [s EXCEPT !.currentScreen = name]

GuardPasses_screenOnly(s) == s.currentScreen = "game"

\* handleTiltSelection, line 290: the guard of the handler
GuardPasses(s) == s.isAnswering /\ s.currentScreen = "game"

IsCorrect_mirrored(dir, side) == dir # side

\* handleTiltSelection, line 302
IsCorrect(dir, side) == dir = side

\* handleTiltSelection, line 309: the score after the scoring timeout
Scored(sc, correct) == IF correct THEN sc + 1 ELSE sc

TotalAnswered_score(s) == s.score

\* endGame, line 340
TotalAnswered(s) == s.currentQuestionIndex

Percentage_unguarded(sc, total) == [num |-> sc * 100, den |-> total]

\* endGame, line 343: percentage, kept as the fraction num/den (the double
\* (score / totalAnswered) * 100 compares with 90, 70 and 50 as this exact
\* fraction does for every totalAnswered up to 2000)
Percentage(sc, total) ==
  IF total > 0 THEN [num |-> sc * 100, den |-> total]
  ELSE [num |-> 0, den |-> 1]

AtLeast_strict(p, k) == p.num > k * p.den

\* percentage >= k
AtLeast(p, k) == p.num >= k * p.den

\* endGame, lines 347-362: the title/message pair that is shown
Tier(sc, total) ==
  IF total = 0 THEN "none"
  ELSE IF AtLeast(Percentage(sc, total), 90) THEN "amazing"
  ELSE IF AtLeast(Percentage(sc, total), 70) THEN "great"
  ELSE IF AtLeast(Percentage(sc, total), 50) THEN "good"
  ELSE "keep"

\* handleTiltSelection, lines 308-323: the presentation the timeout starts
Presentation(correct) == IF correct THEN "showCorrectFeedback" ELSE "showWrongFeedback"

\* the callback handed to the presentation, lines 312-315 / 319-322, up to
\* its call of showQuestion
Advance(s) == [s EXCEPT !.currentQuestionIndex = @ + 1]

\* showCorrectFeedback / showWrongFeedback: the delay before the callback
FeedbackDelay(correct) == IF correct THEN CORRECT_FEEDBACK_MS ELSE WRONG_FEEDBACK_MS

FeedbackTimeouts_none(t) == EmptyBag

\* showCorrectFeedback lines 89-92 / showWrongFeedback lines 108-111: the
\* timeouts the presentation schedules for the callback of the chain t
FeedbackTimeouts(t) ==
  SetToBag({[t EXCEPT !.kind = "feedback", !.rem = FeedbackDelay(t.correct)]})

\* endGame, lines 334-373, run on the session fields s with tm still pending
EndGame(s, tm) ==
  /\ StopTracking
  /\ finalResult' = [totalAnswered |-> TotalAnswered(s), score |-> s.score,
                     tier |-> Tier(s.score, TotalAnswered(s)),
                     percentage |-> Percentage(s.score, TotalAnswered(s))]
  /\ state' = ShowScreen(s, "results")
  /\ timers' = BagOfAll(Ended, tm)
  /\ slotWaiter' = EndedGame(slotWaiter)
  /\ orphans' = BagOfAll(EndedGame, orphans)
  /\ UNCHANGED <<faceMesh, leaked>>

\* showQuestion, lines 267-286, run on the session fields s; `registers`
\* says that the caller has just run setTiltCallback(handleTiltSelection)
\* (startGame, line 254), which an endGame inside showQuestion undoes
ShowQuestion(s, tm, registers) ==
  IF s.currentQuestionIndex >= Len(s.questions)
  THEN EndGame(s, tm)
  ELSE /\ state' = [s EXCEPT !.isAnswering = TRUE]
       /\ timers' = tm
       /\ IF registers THEN SetTiltCallback("handleTiltSelection")
          ELSE UNCHANGED <<onTiltCallback, tiltDebounceTimer, sinceEmit, lastSet, replaced,
                           lastEmit>>
       /\ UNCHANGED <<finalResult, leaked, faceMesh, camera, isTracking,
                      slotWaiter, orphans, inflight>>

\* -------------------------------------------------------------- the page
Init ==
  /\ state = [currentScreen |-> "welcome", questions |-> <<>>,
              currentQuestionIndex |-> 0, score |-> 0, isAnswering |-> FALSE]
  /\ finalResult = NoResult
  /\ allowStage = "idle"
  /\ hsgQuery = 0
  /\ faceMesh = FALSE
  /\ camera = "null"
  /\ isTracking = FALSE
  /\ onTiltCallback = "null"
  /\ tiltDebounceTimer = NoTimer
  /\ windowFaceMesh \in BOOLEAN
  /\ windowCamera \in BOOLEAN
  /\ localStorage = NothingStored
  /\ defaultQuestions = BundledQuestions
  /\ slotWaiter = NoWaiter
  /\ orphans = EmptyBag
  /\ leaked = 0
  /\ inflight = "none"
  /\ timers = EmptyBag
  /\ sinceEmit = -1
  /\ lastEmit = NotRecent
  /\ lastSet = "null"
  /\ replaced = "null"
  /\ acceptedAt = <<>>
  /\ calls = [hsg |-> 0, game |-> 0]
  /\ ev = [op |-> "load"]

\* what the awaiter w of an initFaceTracking call does once the promise has
\* settled: handleStartGame lines 157-167, handleAllowCamera lines 179-187
\* with initializeCamera lines 191-202, startGame lines 247-263
Continue(w, ok, s, tm) ==
  CASE w.who = "hsg" ->
         /\ state' = ShowScreen(s, IF ok THEN "instructions" ELSE "permission")
         /\ timers' = tm
         /\ allowStage' = allowStage
    [] w.who = "allow" ->
         /\ state' = ShowScreen(s, "instructions")
         /\ timers' = tm
         /\ allowStage' = "idle"
    [] OTHER ->
         /\ state' = s
         /\ timers' = IF ok
                      THEN tm (+) SetToBag({Timer("startDelay", START_DELAY_MS, FALSE,
                                                  "-", "-", 0, w.g, w.ended)})
                      ELSE tm
         /\ allowStage' = allowStage

\* click on start-btn or manager-start-btn, Enter on the welcome screen:
\* handleStartGame up to `await navigator.permissions.query`
HandleStartGame ==
  /\ state.currentScreen \in {"welcome", "manager"}
  /\ calls.hsg < MaxHsg
  /\ calls' = [calls EXCEPT !.hsg = @ + 1]
  /\ hsgQuery' = hsgQuery + 1
  /\ ev' = [op |-> "handleStartGame"]
  /\ UNCHANGED <<state, finalResult, allowStage, camVars, envVars, leaked, timers, acceptedAt>>

\* permissions.query settles with 'granted': handleStartGame lines 153-157
HsgGranted ==
  /\ hsgQuery > 0
  /\ hsgQuery' = hsgQuery - 1
  /\ InitFaceTracking(Waiter("hsg", 0))
  /\ IF InitAcquires
     THEN UNCHANGED <<state, timers, allowStage>>
     ELSE Continue(Waiter("hsg", 0), FALSE, state, timers)
  /\ ev' = [op |-> "hsgGranted"]
  /\ UNCHANGED <<finalResult, envVars, leaked, acceptedAt, calls>>

\* permissions.query settles otherwise, or throws: handleStartGame line 167
HsgNotGranted ==
  /\ hsgQuery > 0
  /\ hsgQuery' = hsgQuery - 1
  /\ state' = ShowScreen(state, "permission")
  /\ ev' = [op |-> "hsgNotGranted"]
  /\ UNCHANGED <<finalResult, allowStage, camVars, envVars, leaked, timers, acceptedAt, calls>>

\* click on allow-camera-btn: handleAllowCamera lines 171-176
HandleAllowCamera ==
  /\ state.currentScreen = "permission"
  /\ allowStage = "idle"
  /\ allowStage' = "permission"
  /\ ev' = [op |-> "handleAllowCamera"]
  /\ UNCHANGED <<state, finalResult, hsgQuery, camVars, envVars, leaked, timers, acceptedAt, calls>>

\* requestCameraPermission settles true: handleAllowCamera line 179
AllowGranted ==
  /\ allowStage = "permission"
  /\ InitFaceTracking(Waiter("allow", 0))
  /\ IF InitAcquires
     THEN allowStage' = "init" /\ UNCHANGED <<state, timers>>
     ELSE Continue(Waiter("allow", 0), FALSE, state, timers)
  /\ ev' = [op |-> "allowGranted"]
  /\ UNCHANGED <<finalResult, hsgQuery, envVars, leaked, acceptedAt, calls>>

\* requestCameraPermission settles false: handleAllowCamera lines 181-187
AllowDenied ==
  /\ allowStage = "permission"
  /\ allowStage' = "idle"
  /\ ev' = [op |-> "allowDenied"]
  /\ UNCHANGED <<state, finalResult, hsgQuery, camVars, envVars, leaked, timers, acceptedAt, calls>>

\* back-to-welcome, manage-btn, manager-back-btn: showScreen only
Navigate ==
  /\ \E to \in {"welcome", "manager"} :
       /\ \/ state.currentScreen = "permission" /\ to = "welcome"
          \/ state.currentScreen = "welcome" /\ to = "manager"
          \/ state.currentScreen = "manager" /\ to = "welcome"
       /\ state' = ShowScreen(state, to)
  /\ ev' = [op |-> "navigate"]
  /\ UNCHANGED <<finalResult, allowStage, hsgQuery, camVars, envVars, leaked, timers, acceptedAt, calls>>

\* click on ready-btn or Enter on the instructions screen: startGame up to
\* `await initFaceTracking`, lines 205-247
StartGame ==
  /\ state.currentScreen = "instructions"
  /\ calls.game < MaxGame
  /\ \E qs \in QuestionSeqs :
       IF Len(qs) = 0
       THEN /\ state' = [state EXCEPT !.questions = qs]
            /\ ev' = [op |-> "startGameEmpty"]
            /\ UNCHANGED <<finalResult, camVars, timers, acceptedAt, calls>>
       ELSE /\ state' = [currentScreen |-> "game", questions |-> qs,
                         currentQuestionIndex |-> 0, score |-> 0,
                         isAnswering |-> FALSE]
            /\ InitFaceTracking(Waiter("game", calls.game + 1))
            /\ finalResult' = NoResult
            /\ timers' = timers
            /\ acceptedAt' = [i \in 1..Len(qs) |-> 0]
            /\ calls' = [calls EXCEPT !.game = @ + 1]
            /\ ev' = [op |-> "startGame"]
  /\ UNCHANGED <<allowStage, hsgQuery, envVars, leaked>>

\* click on end-game-btn: endGame
ClickEndGame ==
  /\ state.currentScreen = "game"
  /\ EndGame(state, timers)
  /\ ev' = [op |-> "endGameClicked"]
  /\ UNCHANGED <<allowStage, hsgQuery, envVars, acceptedAt, calls>>

\* click on play-again-btn: handlePlayAgain reloads the page
HandlePlayAgain ==
  /\ state.currentScreen = "results"
  /\ state' = [currentScreen |-> "welcome", questions |-> <<>>,
               currentQuestionIndex |-> 0, score |-> 0, isAnswering |-> FALSE]
  /\ finalResult' = NoResult
  /\ allowStage' = "idle"
  /\ hsgQuery' = 0
  /\ faceMesh' = FALSE
  /\ camera' = "null"
  /\ isTracking' = FALSE
  /\ onTiltCallback' = "null"
  /\ tiltDebounceTimer' = NoTimer
  /\ windowFaceMesh' \in BOOLEAN
  /\ windowCamera' \in BOOLEAN
  /\ UNCHANGED <<localStorage, defaultQuestions>>
  /\ slotWaiter' = NoWaiter
  /\ orphans' = EmptyBag
  /\ leaked' = 0
  /\ inflight' = "none"
  /\ timers' = EmptyBag
  /\ sinceEmit' = -1
  /\ lastEmit' = NotRecent
  /\ lastSet' = "null"
  /\ replaced' = "null"
  /\ acceptedAt' = <<>>
  /\ calls' = [hsg |-> 0, game |-> 0]
  /\ ev' = [op |-> "reload"]

\* camera.start() of the camera in the slot settles: initFaceTracking lines
\* 85-94, then the awaiter's continuation
SlotStartSettles ==
  /\ camera \in {"starting", "startingStopped"}
  /\ \E ok \in BOOLEAN :
       /\ IF ok
          THEN /\ isTracking' = TRUE
               /\ camera' \in (IF camera = "starting" THEN {"running"}
                               ELSE {"running", "stopped"})
          ELSE /\ isTracking' = isTracking
               /\ camera' = "failed"
       /\ Continue(slotWaiter, ok, state, timers)
       /\ ev' = [op |-> "startSettled", ok |-> ok, current |-> TRUE,
                 waiter |-> slotWaiter.who]
  /\ slotWaiter' = NoWaiter
  /\ UNCHANGED <<finalResult, hsgQuery, faceMesh, onTiltCallback, tiltDebounceTimer,
                 envVars, orphans, leaked, inflight, sinceEmit, lastEmit, lastSet, replaced,
                 acceptedAt, calls>>

\* camera.start() of a camera that is no longer in the slot settles
OrphanStartSettles ==
  /\ \E w \in BagToSet(orphans), ok \in BOOLEAN :
       /\ orphans' = orphans (-) SetToBag({w})
       /\ IF ok
          THEN isTracking' = TRUE /\ leaked' \in {leaked, Min(MaxLeaked, leaked + 1)}
          ELSE isTracking' = isTracking /\ leaked' = leaked
       /\ Continue(w, ok, state, timers)
       /\ ev' = [op |-> "startSettled", ok |-> ok, current |-> FALSE, waiter |-> w.who]
  /\ UNCHANGED <<finalResult, hsgQuery, faceMesh, camera, onTiltCallback,
                 tiltDebounceTimer, envVars, slotWaiter, inflight, sinceEmit, lastEmit,
                 lastSet, replaced, acceptedAt, calls>>

FrameForwarded_always == faceMesh

\* onFrame, line 73: the frame is handed to faceMesh.send
FrameForwarded == isTracking /\ faceMesh

\* a running camera delivers a frame: onFrame, initFaceTracking lines 72-80
OnFrame ==
  /\ camera = "running" \/ leaked > 0
  /\ inflight = "none"
  /\ inflight' = IF FrameForwarded THEN "fresh" ELSE "none"
  /\ ev' = [op |-> "frame", sent |-> FrameForwarded]
  /\ UNCHANGED <<state, finalResult, allowStage, hsgQuery, faceMesh, camera, isTracking,
                 onTiltCallback, tiltDebounceTimer, envVars, slotWaiter, orphans,
                 leaked, timers, sinceEmit, lastEmit, lastSet, replaced, acceptedAt, calls>>

\* the detector delivers a result: processResults lines 99-159, and
\* handleTiltSelection lines 289-325 when the callback is invoked
ProcessResultsOf(samples) ==
  /\ inflight # "none"
  /\ inflight' = "none"
  /\ \E a \in samples :
       LET dir == Direction(a)
           invoke == dir # "none" /\ onTiltCallback # "null" /\ DebounceOpen
           accept == invoke /\ onTiltCallback = "handleTiltSelection"
                     /\ GuardPasses(state)
           side == state.questions[state.currentQuestionIndex + 1]
       IN /\ tiltDebounceTimer' = TimerAfterSample(invoke)
          /\ sinceEmit' = IF invoke THEN 0 ELSE sinceEmit
          /\ lastEmit' = IF invoke THEN 0 ELSE lastEmit
          /\ IF accept
             THEN /\ state' = [state EXCEPT !.isAnswering = FALSE]
                  /\ timers' = timers (+) SetToBag({Timer("score", SCORE_DELAY_MS,
                                     IsCorrect(dir, side), dir, side,
                                     state.currentQuestionIndex, calls.game, FALSE)})
                  /\ acceptedAt' = [acceptedAt EXCEPT ![state.currentQuestionIndex + 1] = @ + 1]
             ELSE UNCHANGED <<state, timers, acceptedAt>>
          /\ ev' = [op |-> "result", dir |-> dir, invoked |-> invoke,
                    accepted |-> accept, gap |-> sinceEmit, recent |-> lastEmit,
                    callee |-> IF invoke THEN onTiltCallback ELSE "null",
                    window |-> tiltDebounceTimer,
                    registered |-> onTiltCallback # "null",
                    face |-> a # NoFace,
                    answering |-> state.isAnswering, late |-> inflight]
  /\ UNCHANGED <<finalResult, allowStage, hsgQuery, faceMesh, camera, isTracking,
                 onTiltCallback, envVars, slotWaiter, orphans, leaked, calls, lastSet, replaced>>

\* a result with any of the modelled angles, or without a face
ProcessResults == ProcessResultsOf(Angles \cup {NoFace})

\* the debounce timeout runs: processResults lines 149-151
DebounceExpires ==
  /\ tiltDebounceTimer = 0
  /\ tiltDebounceTimer' = NoTimer
  /\ ev' = [op |-> "debounceExpired"]
  /\ UNCHANGED <<state, finalResult, allowStage, hsgQuery, faceMesh, camera, isTracking,
                 onTiltCallback, envVars, slotWaiter, orphans, leaked, inflight,
                 timers, sinceEmit, lastEmit, lastSet, replaced, acceptedAt, calls>>

\* startGame resumes after its 300 ms delay: lines 250-258
StartDelayDone(t) ==
  /\ t.kind = "startDelay"
  /\ ShowQuestion(state, timers (-) SetToBag({t}), TRUE)
  /\ ev' = [op |-> "startGameResumed", g |-> t.g, ended |-> t.ended]
  /\ UNCHANGED <<allowStage, hsgQuery, envVars, acceptedAt, calls>>

\* the 300 ms timeout of handleTiltSelection runs: lines 307-324, with
\* showCorrectFeedback / showWrongFeedback up to their setTimeout
ScoreTimeout(t) ==
  /\ t.kind = "score"
  /\ state' = [state EXCEPT !.score = Scored(state.score, t.correct)]
  /\ timers' = (timers (-) SetToBag({t})) (+) FeedbackTimeouts(t)
  /\ ev' = [op |-> "scored", dir |-> t.dir, side |-> t.side, g |-> t.g,
            ended |-> t.ended,
            delta |-> state'.score - state.score,
            feedback |-> Presentation(t.correct)]
  /\ UNCHANGED <<finalResult, allowStage, hsgQuery, camVars, envVars, leaked, acceptedAt, calls>>

\* the feedback timeout runs the callback: effects.js lines 89-92 / 108-111
\* and main.js lines 312-315 / 319-322
FeedbackDone(t) ==
  /\ t.kind = "feedback"
  /\ ShowQuestion(Advance(state), timers (-) SetToBag({t}), FALSE)
  /\ ev' = [op |-> "feedbackDone", q |-> t.q, g |-> t.g, ended |-> t.ended,
            endsGame |-> Advance(state).currentQuestionIndex >= Len(state.questions)]
  /\ UNCHANGED <<allowStage, hsgQuery, envVars, acceptedAt, calls>>

TimerFires ==
  \E t \in BagToSet(timers) :
    /\ t.rem = 0
    /\ \/ StartDelayDone(t)
       \/ ScoreTimeout(t)
       \/ FeedbackDone(t)

\* TickMs milliseconds pass; every timeout that is due has been run
Tick ==
  /\ tiltDebounceTimer # 0
  /\ \A t \in BagToSet(timers) : t.rem # 0
  /\ tiltDebounceTimer' = IF tiltDebounceTimer = NoTimer THEN NoTimer
                          ELSE Max(0, tiltDebounceTimer - TickMs)
  /\ timers' = BagOfAll(TickTimer, timers)
  /\ sinceEmit' = IF sinceEmit = -1 THEN -1 ELSE Min(DEBOUNCE_MS, sinceEmit + TickMs)
  /\ lastEmit' = Elapsed(lastEmit)
  /\ ev' = [op |-> "tick"]
  /\ UNCHANGED <<state, finalResult, allowStage, hsgQuery, faceMesh, camera, isTracking,
                 onTiltCallback, envVars, slotWaiter, orphans, leaked, inflight, acceptedAt,
                 calls, lastSet, replaced>>

Next ==
  \/ HandleStartGame
  \/ HsgGranted
  \/ HsgNotGranted
  \/ HandleAllowCamera
  \/ AllowGranted
  \/ AllowDenied
  \/ Navigate
  \/ StartGame
  \/ ClickEndGame
  \/ HandlePlayAgain
  \/ SlotStartSettles
  \/ OrphanStartSettles
  \/ OnFrame
  \/ ProcessResults
  \/ DebounceExpires
  \/ TimerFires
  \/ Tick

Spec == Init /\ [][Next]_vars

TypeOK ==
  /\ state.currentScreen \in {"welcome", "permission", "instructions", "game",
                              "results", "manager"}
  /\ camera \in {"null", "starting", "startingStopped", "running", "stopped", "failed"}
  /\ tiltDebounceTimer \in {NoTimer} \cup 0..DEBOUNCE_MS
  /\ inflight \in {"none", "fresh", "stopped"}

\* ------------------------------------------- endGame on any score / total
\* a session of MaxTierTotal + 1 questions that awaits the answer of question
\* k with sc of the k answers correct; the end-game button is clicked
TierQuestions == [i \in 1..(MaxTierTotal + 1) |-> "left"]

TierInit ==
  /\ \E k \in 0..MaxTierTotal :
       /\ \E sc \in 0..k :
            state = [currentScreen |-> "game", questions |-> TierQuestions,
                     currentQuestionIndex |-> k, score |-> sc, isAnswering |-> TRUE]
       /\ acceptedAt = [i \in 1..(MaxTierTotal + 1) |-> IF i <= k THEN 1 ELSE 0]
  /\ finalResult = NoResult
  /\ allowStage = "idle"
  /\ hsgQuery = 0
  /\ faceMesh = TRUE
  /\ camera = "running"
  /\ isTracking = TRUE
  /\ onTiltCallback = "handleTiltSelection"
  /\ tiltDebounceTimer = NoTimer
  /\ windowFaceMesh = TRUE
  /\ windowCamera = TRUE
  /\ localStorage = NothingStored
  /\ defaultQuestions = BundledQuestions
  /\ slotWaiter = NoWaiter
  /\ orphans = EmptyBag
  /\ leaked = 0
  /\ inflight = "none"
  /\ timers = EmptyBag
  /\ sinceEmit = -1
  /\ lastEmit = NotRecent
  /\ lastSet = "handleTiltSelection"
  /\ replaced = "null"
  /\ calls = [hsg |-> 1, game |-> 1]
  /\ ev = [op |-> "questionShown"]

TierNext == ClickEndGame

TierSpec == TierInit /\ [][TierNext]_vars

\* ------------------------------------ the tilt callback slot of camera.js
\* tracking runs after a successful initFaceTracking (instructions screen);
\* a consumer calls the exported setTiltCallback / clearTiltCallback in any
\* order with the callbacks f and g while frames are processed
Callbacks == {"f", "g"}

DebounceInit ==
  /\ state = [currentScreen |-> "instructions", questions |-> <<>>,
              currentQuestionIndex |-> 0, score |-> 0, isAnswering |-> FALSE]
  /\ finalResult = NoResult
  /\ allowStage = "idle"
  /\ hsgQuery = 0
  /\ faceMesh = TRUE
  /\ camera = "running"
  /\ isTracking = TRUE
  /\ onTiltCallback = "null"
  /\ tiltDebounceTimer = NoTimer
  /\ windowFaceMesh = TRUE
  /\ windowCamera = TRUE
  /\ localStorage = NothingStored
  /\ defaultQuestions = BundledQuestions
  /\ slotWaiter = NoWaiter
  /\ orphans = EmptyBag
  /\ leaked = 0
  /\ inflight = "none"
  /\ timers = EmptyBag
  /\ sinceEmit = -1
  /\ lastEmit = NotRecent
  /\ lastSet = "null"
  /\ replaced = "null"
  /\ acceptedAt = <<>>
  /\ calls = [hsg |-> 1, game |-> 0]
  /\ ev = [op |-> "startSettled", ok |-> TRUE, current |-> TRUE, waiter |-> "hsg"]

\* a call of the exported setTiltCallback
ApiSetTiltCallback ==
  /\ \E cb \in Callbacks :
       /\ SetTiltCallback(cb)
       /\ ev' = [op |-> "setTiltCallback", cb |-> cb, replaced |-> onTiltCallback]
  /\ UNCHANGED <<state, finalResult, allowStage, hsgQuery, faceMesh, camera, isTracking,
                 envVars, slotWaiter, orphans, leaked, inflight, timers, acceptedAt, calls>>

\* a call of the exported clearTiltCallback
ApiClearTiltCallback ==
  /\ ClearTiltCallback
  /\ ev' = [op |-> "clearTiltCallback", replaced |-> onTiltCallback]
  /\ UNCHANGED <<state, finalResult, allowStage, hsgQuery, faceMesh, camera, isTracking,
                 envVars, slotWaiter, orphans, leaked, inflight, timers, acceptedAt, calls>>

DebounceNext ==
  \/ ApiSetTiltCallback
  \/ ApiClearTiltCallback
  \/ OnFrame
  \/ ProcessResults
  \/ DebounceExpires
  \/ Tick

DebounceSpec == DebounceInit /\ [][DebounceNext]_vars

\* ------------------------------------- the tracking lifecycle of camera.js
\* a consumer calls the exported initFaceTracking, stopTracking and
\* setTiltCallback in any order from the freshly loaded module, with either
\* library present or missing, while starts settle and frames are processed
TrackInit ==
  /\ state = [currentScreen |-> "permission", questions |-> <<>>,
              currentQuestionIndex |-> 0, score |-> 0, isAnswering |-> FALSE]
  /\ finalResult = NoResult
  /\ allowStage = "idle"
  /\ hsgQuery = 0
  /\ faceMesh = FALSE
  /\ camera = "null"
  /\ isTracking = FALSE
  /\ onTiltCallback = "null"
  /\ tiltDebounceTimer = NoTimer
  /\ windowFaceMesh \in BOOLEAN
  /\ windowCamera \in BOOLEAN
  /\ localStorage = NothingStored
  /\ defaultQuestions = BundledQuestions
  /\ slotWaiter = NoWaiter
  /\ orphans = EmptyBag
  /\ leaked = 0
  /\ inflight = "none"
  /\ timers = EmptyBag
  /\ sinceEmit = -1
  /\ lastEmit = NotRecent
  /\ lastSet = "null"
  /\ replaced = "null"
  /\ acceptedAt = <<>>
  /\ calls = [hsg |-> 0, game |-> 0]
  /\ ev = [op |-> "load"]

\* the module state a call finds
ModuleState ==
  [isTracking |-> isTracking, onTiltCallback |-> onTiltCallback,
   tiltDebounceTimer |-> tiltDebounceTimer, camera |-> camera, faceMesh |-> faceMesh]

\* a call of the exported initFaceTracking, awaited as initializeCamera
\* awaits it (main.js lines 191-202: a rejection is caught and reported)
ApiInitFaceTracking ==
  /\ BagCardinality(orphans) < MaxPending
  /\ InitFaceTracking(Waiter("allow", 0))
  /\ IF InitAcquires
     THEN UNCHANGED <<state, timers, allowStage>>
     ELSE Continue(Waiter("allow", 0), FALSE, state, timers)
  /\ ev' = [op |-> "initFaceTracking", settled |-> ~InitAcquires, ok |-> FALSE]
  /\ UNCHANGED <<finalResult, hsgQuery, envVars, leaked, acceptedAt, calls>>

\* a call of the exported stopTracking
ApiStopTracking ==
  /\ StopTracking
  /\ ev' = [op |-> "stopTracking", was |-> ModuleState]
  /\ UNCHANGED <<state, finalResult, allowStage, hsgQuery, faceMesh, envVars,
                 slotWaiter, orphans, leaked, timers, acceptedAt, calls>>

TrackNext ==
  \/ ApiInitFaceTracking
  \/ ApiStopTracking
  \/ ApiSetTiltCallback
  \/ ApiClearTiltCallback
  \/ SlotStartSettles
  \/ OrphanStartSettles
  \/ OnFrame
  \/ ProcessResults
  \/ DebounceExpires
  \/ Tick

TrackSpec == TrackInit /\ [][TrackNext]_vars

\* the same calls under the scheduling the page guarantees: time passes and
\* a timeout that is due is run; nothing in the module bounds the time the
\* capture device takes to answer camera.start()
TrackFair ==
  /\ TrackSpec
  /\ WF_vars(Tick)
  /\ WF_vars(DebounceExpires)
  /\ WF_vars(ProcessResults)

\* ------------------------------------------ the tilt direction of a sample
\* processResults on a result with a face, for every whole angle atan2 can
\* yield, line 120; the callback slot is empty, so only the direction counts
MaxAngle == 180
SampleAngles == (-MaxAngle)..MaxAngle

ClassifyInit ==
  /\ state = [currentScreen |-> "instructions", questions |-> <<>>,
              currentQuestionIndex |-> 0, score |-> 0, isAnswering |-> FALSE]
  /\ finalResult = NoResult
  /\ allowStage = "idle"
  /\ hsgQuery = 0
  /\ faceMesh = TRUE
  /\ camera = "running"
  /\ isTracking = TRUE
  /\ onTiltCallback = "null"
  /\ tiltDebounceTimer = NoTimer
  /\ windowFaceMesh = TRUE
  /\ windowCamera = TRUE
  /\ localStorage = NothingStored
  /\ defaultQuestions = BundledQuestions
  /\ slotWaiter = NoWaiter
  /\ orphans = EmptyBag
  /\ leaked = 0
  /\ inflight = "fresh"
  /\ timers = EmptyBag
  /\ sinceEmit = -1
  /\ lastEmit = NotRecent
  /\ lastSet = "null"
  /\ replaced = "null"
  /\ acceptedAt = <<>>
  /\ calls = [hsg |-> 1, game |-> 0]
  /\ \E a \in SampleAngles : ev = [op |-> "sample", angle |-> a]

\* processResults lines 111-138 on the sample: tiltAngle and tiltDirection
ClassifySample ==
  /\ ev.op = "sample"
  /\ inflight = "fresh"
  /\ inflight' = "none"
  /\ ev' = [op |-> "classified", angle |-> ev.angle, dir |-> Classify(ev.angle)]
  /\ UNCHANGED <<state, finalResult, allowStage, hsgQuery, faceMesh, camera, isTracking,
                 onTiltCallback, tiltDebounceTimer, envVars, slotWaiter, orphans,
                 leaked, timers, sinceEmit, lastEmit, lastSet, replaced, acceptedAt, calls>>

ClassifyNext == ClassifySample

ClassifySpec == ClassifyInit /\ [][ClassifyNext]_vars

\* ------------------------------------------- the feedback presentations
\* one session that awaits the answer of its first question: gestures are
\* accepted, scored and presented, the end-game button may be clicked, time
\* passes and every timeout that is due is run
FeedbackInit ==
  /\ \E qs \in QuestionSeqs :
       /\ Len(qs) > 0
       /\ state = [currentScreen |-> "game", questions |-> qs,
                   currentQuestionIndex |-> 0, score |-> 0, isAnswering |-> TRUE]
       /\ acceptedAt = [i \in 1..Len(qs) |-> 0]
  /\ finalResult = NoResult
  /\ allowStage = "idle"
  /\ hsgQuery = 0
  /\ faceMesh = TRUE
  /\ camera = "running"
  /\ isTracking = TRUE
  /\ onTiltCallback = "handleTiltSelection"
  /\ tiltDebounceTimer = NoTimer
  /\ windowFaceMesh = TRUE
  /\ windowCamera = TRUE
  /\ localStorage = NothingStored
  /\ defaultQuestions = BundledQuestions
  /\ slotWaiter = NoWaiter
  /\ orphans = EmptyBag
  /\ leaked = 0
  /\ inflight = "none"
  /\ timers = EmptyBag
  /\ sinceEmit = -1
  /\ lastEmit = NotRecent
  /\ lastSet = "handleTiltSelection"
  /\ replaced = "null"
  /\ calls = [hsg |-> 1, game |-> 1]
  /\ ev = [op |-> "questionShown"]

\* a timeout of handleTiltSelection or of a presentation runs
ChainTimerFires ==
  \E t \in BagToSet(timers) :
    /\ t.rem = 0
    /\ \/ ScoreTimeout(t)
       \/ FeedbackDone(t)

FeedbackNext ==
  \/ OnFrame
  \/ ProcessResults
  \/ DebounceExpires
  \/ ChainTimerFires
  \/ ClickEndGame
  \/ Tick

FeedbackSpec ==
  /\ FeedbackInit
  /\ [][FeedbackNext]_vars
  /\ WF_vars(Tick)
  /\ WF_vars(DebounceExpires)
  /\ WF_vars(ChainTimerFires)

\* --------------------------------------------------------- questions.js
\* the stored questions are data.questions as loadData returns them; a
\* question is kept as its position in that list (id), its unitId and its
\* disabled flag
Units == {"u1", "u2"}
\* the argument unitIds = null, and the argument limit = null (main.js 208)
NullUnitIds == {"null"}
NullLimit == -99

StoredSeqs ==
  UNION {{[i \in 1..n |-> [id |-> i, unitId |-> u[i], disabled |-> d[i]]] :
            u \in [1..n -> Units], d \in [1..n -> BOOLEAN]} : n \in 0..MaxStored}

\* getQuestions, lines 209-217, called with an array of unit ids or null
GetQuestions(stored, unitIds) ==
  IF unitIds = NullUnitIds THEN stored
  ELSE SelectSeq(stored, LAMBDA q : q.unitId \in unitIds)

Eligible_all(q) == TRUE

\* getGameQuestions, line 266: `!q.disabled`
Eligible(q) == ~q.disabled

\* getGameQuestions, line 268: sort with a random comparator yields the
\* elements in some order
Shuffles(qs) ==
  {[i \in 1..Len(qs) |-> qs[p[i]]] :
     p \in {f \in [1..Len(qs) -> 1..Len(qs)] :
              \A i, j \in 1..Len(qs) : i # j => f[i] # f[j]}}

\* getGameQuestions, lines 270-272: `limit && limit > 0`, slice(0, limit)
Slice(qs, limit) ==
  IF limit # NullLimit /\ limit # 0 /\ limit > 0
  THEN SubSeq(qs, 1, Min(limit, Len(qs)))
  ELSE qs

\* getGameQuestions, lines 265-274: the lists a call can return
GetGameQuestions(stored, shuffle, limit, unitIds) ==
  LET questions == SelectSeq(GetQuestions(stored, unitIds), Eligible)
  IN {Slice(o, limit) : o \in (IF shuffle THEN Shuffles(questions) ELSE {questions})}

QuestionsInit ==
  /\ state = [currentScreen |-> "instructions", questions |-> <<>>,
              currentQuestionIndex |-> 0, score |-> 0, isAnswering |-> FALSE]
  /\ finalResult = NoResult
  /\ allowStage = "idle"
  /\ hsgQuery = 0
  /\ faceMesh = TRUE
  /\ camera = "running"
  /\ isTracking = TRUE
  /\ onTiltCallback = "null"
  /\ tiltDebounceTimer = NoTimer
  /\ windowFaceMesh = TRUE
  /\ windowCamera = TRUE
  /\ localStorage = NothingStored
  /\ defaultQuestions = BundledQuestions
  /\ slotWaiter = NoWaiter
  /\ orphans = EmptyBag
  /\ leaked = 0
  /\ inflight = "none"
  /\ timers = EmptyBag
  /\ sinceEmit = -1
  /\ lastEmit = NotRecent
  /\ lastSet = "null"
  /\ replaced = "null"
  /\ acceptedAt = <<>>
  /\ calls = [hsg |-> 1, game |-> 0]
  /\ \E st \in StoredSeqs : ev = [op |-> "stored", stored |-> st]

\* a call getGameQuestions(shuffle, limit, unitIds) on the stored questions
CallGetGameQuestions ==
  /\ ev.op = "stored"
  /\ \E shuffle \in BOOLEAN, limit \in {NullLimit} \cup (-1)..(MaxStored + 1),
        unitIds \in {NullUnitIds} \cup SUBSET Units :
       \E r \in GetGameQuestions(ev.stored, shuffle, limit, unitIds) :
         ev' = [op |-> "getGameQuestions", stored |-> ev.stored, shuffle |-> shuffle,
                limit |-> limit, unitIds |-> unitIds, result |-> r]
  /\ UNCHANGED <<state, finalResult, allowStage, hsgQuery, camVars, envVars, leaked,
                 timers, acceptedAt, calls>>

QuestionsNext == CallGetGameQuestions

QuestionsSpec == QuestionsInit /\ [][QuestionsNext]_vars

\* ----------------------------------------------------- a tilt that is held
\* one session that awaits the answer of its first question while the user
\* keeps the head tilted: every result classifies as left or right; frames,
\* results and due timeouts are never starved and time passes
HeldAngles == {a \in Angles : Classify(a) # "none"}

HeldTiltResult == ProcessResultsOf(HeldAngles)

HeldTiltNext ==
  \/ OnFrame
  \/ HeldTiltResult
  \/ DebounceExpires
  \/ ChainTimerFires
  \/ Tick

HeldTiltSpec ==
  /\ FeedbackInit
  /\ [][HeldTiltNext]_vars
  /\ WF_vars(OnFrame)
  /\ WF_vars(HeldTiltResult)
  /\ WF_vars(DebounceExpires)
  /\ WF_vars(ChainTimerFires)
  /\ WF_vars(Tick)

\* ------------------------------------------- the storage of questions.js
\* a unit is [id, name]; a question is [id, unitId, disabled, text], `text`
\* standing for its question, correct and wrong texts
UnknownId == 0
UnitNames == {DEFAULT_UNIT_NAME, "Unit B"}
Texts == {"a"}
DefaultSets == {NoDefaults, BundledQuestions}
\* what an older version of the page left under LEGACY_STORAGE_KEY
LegacyItems ==
  {NoItem, <<<<>>>>, <<<<[text |-> "a", disabled |-> TRUE]>>>>}

UnitIdsOf(data) ==
  {data.units[i].id : i \in DOMAIN data.units}
    \cup {data.questions[i].unitId : i \in DOMAIN data.questions}
QuestionIdsOf(data) == {data.questions[i].id : i \in DOMAIN data.questions}
StoredUnitIds(ls) == IF ls.data = NoItem THEN {} ELSE UnitIdsOf(ls.data[1])
StoredQuestionIds(ls) == IF ls.data = NoItem THEN {} ELSE QuestionIdsOf(ls.data[1])

\* generateId, lines 8-10: n ids that were never returned before, kept as
\* the least positive numbers that are not among the ids in use
NthLeast(free, i) == CHOOSE x \in free : Cardinality({y \in free : y < x}) = i - 1
GenerateIds(used, n) ==
  [i \in 1..n |-> NthLeast((1..(Cardinality(used) + n)) \ used, i)]

\* buildDefaultData, lines 58-64: the units, each with a new id
NamedUnits(dq) == SelectSeq(dq.units, LAMBDA u : u.name # "")
UnitsWithIds(named, uids) ==
  IF Len(named) = 0
  THEN <<[id |-> uids[1], name |-> DEFAULT_UNIT_NAME]>>
  ELSE [i \in 1..Len(named) |-> [id |-> uids[i], name |-> named[i].name]]
DefaultUnits(dq, usedUnits) ==
  UnitsWithIds(NamedUnits(dq), GenerateIds(usedUnits, Max(1, Len(NamedUnits(dq)))))

\* lines 66-67, 74: new Map(...) keeps the last unit of a name;
\* `unitIdByName.get(q.unit) || fallbackUnitId`
LastOf(is) == CHOOSE i \in is : \A j \in is : j <= i
UnitIdByName(units, n) ==
  IF {i \in DOMAIN units : units[i].name = n} = {}
  THEN units[1].id
  ELSE units[LastOf({i \in DOMAIN units : units[i].name = n})].id

\* lines 71-80: the questions, each with a new id, the incomplete ones dropped
DefaultQuestionsOf(units, dq, qids) ==
  SelectSeq([i \in 1..Len(dq.questions) |->
               [id |-> qids[i], unitId |-> UnitIdByName(units, dq.questions[i].unit),
                disabled |-> dq.questions[i].disabled, text |-> dq.questions[i].text]],
            LAMBDA q : q.text # "")

\* buildDefaultData, lines 57-82 (and 84-88 for a bundle with no questions)
BuildDefaultData(dq, usedUnits, usedQuestions) ==
  [units |-> DefaultUnits(dq, usedUnits),
   questions |-> DefaultQuestionsOf(DefaultUnits(dq, usedUnits), dq,
                                    GenerateIds(usedQuestions, Len(dq.questions)))]

\* countDefaultQuestions, lines 102-104
CountDefaultQuestions(dq) == Len(dq.questions)

\* normalizeData, lines 113-122: no unit is stored
WithFallbackUnits(units, questions) ==
  [units |-> units,
   questions |-> [i \in DOMAIN questions |-> [questions[i] EXCEPT !.unitId = units[1].id]]]

\* normalizeData, lines 109-134; the stored item is always what saveData
\* wrote, an object with its two arrays
NormalizeData(data, dq) ==
  IF Len(data.units) = 0
  THEN WithFallbackUnits(
         BuildDefaultData(dq, UnitIdsOf(data), QuestionIdsOf(data)).units, data.questions)
  ELSE [data EXCEPT !.questions =
          [i \in DOMAIN data.questions |->
             [data.questions[i] EXCEPT
                !.unitId = IF @ \in {data.units[j].id : j \in DOMAIN data.units}
                           THEN @ ELSE data.units[1].id]]]

\* saveData, lines 173-175
SaveData(ls, data) == [ls EXCEPT !.data = <<data>>]
\* `saveData(x); return x`: the data in hand and the storage left behind
Saved(ls, data) == [data |-> data, storage |-> SaveData(ls, data)]

LoadStored_keepsEmpty(ls, dq, normalized) == [data |-> normalized, storage |-> ls]

\* loadData, lines 140-146
LoadStored(ls, dq, normalized) ==
  IF Len(normalized.questions) = 0 /\ CountDefaultQuestions(dq) > 0
  THEN Saved(ls, BuildDefaultData(dq, UnitIdsOf(ls.data[1]), QuestionIdsOf(ls.data[1])))
  ELSE [data |-> normalized, storage |-> ls]

\* loadData, lines 151-163
Migrated(legacyQuestions, unitId, qids) ==
  [units |-> <<[id |-> unitId, name |-> DEFAULT_UNIT_NAME]>>,
   questions |-> [i \in DOMAIN legacyQuestions |->
                    [id |-> qids[i], unitId |-> unitId,
                     disabled |-> legacyQuestions[i].disabled,
                     text |-> legacyQuestions[i].text]]]

\* loadData, lines 136-171: the data it returns and the storage it leaves
LoadData(ls, dq) ==
  IF ls.data # NoItem
  THEN LoadStored(ls, dq, NormalizeData(ls.data[1], dq))
  ELSE IF ls.legacy # NoItem
  THEN Saved(ls, Migrated(ls.legacy[1], GenerateIds({}, 1)[1],
                          GenerateIds({}, Len(ls.legacy[1]))))
  ELSE Saved(ls, BuildDefaultData(dq, {}, {}))

\* Array.prototype.find by id: the first position that holds it, 0 if none
FindById(seq, id) ==
  IF \E i \in DOMAIN seq : seq[i].id = id
  THEN CHOOSE i \in DOMAIN seq : seq[i].id = id /\ \A j \in 1..(i - 1) : seq[j].id # id
  ELSE 0

\* each exported function starts with `const data = loadData()`; l is what
\* that call returned and left stored

\* addUnit, lines 182-188
AddUnitTo(l, ls, name) ==
  Saved(l.storage,
        [l.data EXCEPT !.units =
           Append(@, [id |-> GenerateIds(UnitIdsOf(l.data) \cup StoredUnitIds(ls), 1)[1],
                      name |-> name])])
AddUnit(ls, dq, name) == AddUnitTo(LoadData(ls, dq), ls, name)

\* updateUnit, lines 190-198
UpdateUnitAt(l, i, name) ==
  IF i = 0 THEN l ELSE Saved(l.storage, [l.data EXCEPT !.units[i].name = name])
UpdateUnitIn(l, unitId, name) == UpdateUnitAt(l, FindById(l.data.units, unitId), name)
UpdateUnit(ls, dq, unitId, name) == UpdateUnitIn(LoadData(ls, dq), unitId, name)

DeleteUnitIn_keepsQuestions(l, unitId) ==
  Saved(l.storage, [l.data EXCEPT !.units = SelectSeq(@, LAMBDA u : u.id # unitId)])

\* deleteUnit, lines 200-206
DeleteUnitIn(l, unitId) ==
  Saved(l.storage,
        [units |-> SelectSeq(l.data.units, LAMBDA u : u.id # unitId),
         questions |-> SelectSeq(l.data.questions, LAMBDA q : q.unitId # unitId)])
DeleteUnit(ls, dq, unitId) == DeleteUnitIn(LoadData(ls, dq), unitId)

\* addQuestion, lines 219-228
AddQuestionTo(l, ls, question) ==
  Saved(l.storage,
        [l.data EXCEPT !.questions =
           Append(@, [id |-> GenerateIds(QuestionIdsOf(l.data)
                                           \cup StoredQuestionIds(ls), 1)[1],
                      unitId |-> question.unitId, disabled |-> FALSE,
                      text |-> question.text])])
AddQuestion(ls, dq, question) == AddQuestionTo(LoadData(ls, dq), ls, question)

\* updateQuestion, lines 230-238
UpdateQuestionAt(l, i, updatedQuestion) ==
  IF i = 0 THEN l
  ELSE Saved(l.storage, [l.data EXCEPT !.questions[i].unitId = updatedQuestion.unitId,
                                       !.questions[i].text = updatedQuestion.text])
UpdateQuestionIn(l, questionId, updatedQuestion) ==
  UpdateQuestionAt(l, FindById(l.data.questions, questionId), updatedQuestion)
UpdateQuestion(ls, dq, questionId, updatedQuestion) ==
  UpdateQuestionIn(LoadData(ls, dq), questionId, updatedQuestion)

\* deleteQuestion, lines 240-245
DeleteQuestionIn(l, questionId) ==
  Saved(l.storage,
        [l.data EXCEPT !.questions = SelectSeq(@, LAMBDA q : q.id # questionId)])
DeleteQuestion(ls, dq, questionId) == DeleteQuestionIn(LoadData(ls, dq), questionId)

ToggleQuestionAt_disables(l, i) ==
  IF i = 0 THEN l ELSE Saved(l.storage, [l.data EXCEPT !.questions[i].disabled = TRUE])

\* toggleQuestion, lines 247-255
ToggleQuestionAt(l, i) ==
  IF i = 0 THEN l ELSE Saved(l.storage, [l.data EXCEPT !.questions[i].disabled = ~@])
ToggleQuestionIn(l, questionId) ==
  ToggleQuestionAt(l, FindById(l.data.questions, questionId))
ToggleQuestion(ls, dq, questionId) == ToggleQuestionIn(LoadData(ls, dq), questionId)

\* resetToDefault, lines 257-262
ResetToDefault(ls, dq) ==
  [data |-> BuildDefaultData(dq, StoredUnitIds(ls), StoredQuestionIds(ls)),
   storage |-> NothingStored]

\* the callers of questions.js: the exported functions, called in any order
\* with ids read from the storage or with an id that names nothing
StorageInit ==
  /\ state = [currentScreen |-> "welcome", questions |-> <<>>,
              currentQuestionIndex |-> 0, score |-> 0, isAnswering |-> FALSE]
  /\ finalResult = NoResult
  /\ allowStage = "idle"
  /\ hsgQuery = 0
  /\ faceMesh = FALSE
  /\ camera = "null"
  /\ isTracking = FALSE
  /\ onTiltCallback = "null"
  /\ tiltDebounceTimer = NoTimer
  /\ windowFaceMesh = TRUE
  /\ windowCamera = TRUE
  /\ localStorage \in [data : {NoItem}, legacy : LegacyItems]
  /\ defaultQuestions \in DefaultSets
  /\ slotWaiter = NoWaiter
  /\ orphans = EmptyBag
  /\ leaked = 0
  /\ inflight = "none"
  /\ timers = EmptyBag
  /\ sinceEmit = -1
  /\ lastEmit = NotRecent
  /\ lastSet = "null"
  /\ replaced = "null"
  /\ acceptedAt = <<>>
  /\ calls = [hsg |-> 0, game |-> 0]
  /\ ev = [op |-> "load"]

pageVars == <<state, finalResult, allowStage, hsgQuery, camVars, windowFaceMesh,
              windowCamera, defaultQuestions, leaked, timers, acceptedAt, calls>>

UnitIdArgs == StoredUnitIds(localStorage) \cup {UnknownId}
QuestionIdArgs == StoredQuestionIds(localStorage) \cup {UnknownId}

\* getUnits, getQuestions: lines 178-180, 209-217
ApiLoadData ==
  \E r \in {LoadData(localStorage, defaultQuestions)} :
     /\ localStorage' = r.storage
     /\ ev' = [op |-> "loadData", was |-> localStorage.data, data |-> r.data]
     /\ UNCHANGED pageVars

ApiAddUnit ==
  /\ Len(LoadData(localStorage, defaultQuestions).data.units) < MaxKeptUnits
  /\ \E name \in UnitNames :
       \E r \in {AddUnit(localStorage, defaultQuestions, name)} :
          /\ localStorage' = r.storage
          /\ ev' = [op |-> "addUnit"]
  /\ UNCHANGED pageVars

ApiUpdateUnit ==
  /\ \E unitId \in UnitIdArgs, name \in UnitNames :
       \E r \in {UpdateUnit(localStorage, defaultQuestions, unitId, name)} :
          /\ localStorage' = r.storage
          /\ ev' = [op |-> "updateUnit"]
  /\ UNCHANGED pageVars

ApiDeleteUnit ==
  /\ \E unitId \in UnitIdArgs :
       \E r \in {DeleteUnit(localStorage, defaultQuestions, unitId)} :
          /\ localStorage' = r.storage
          /\ ev' = [op |-> "deleteUnit", id |-> unitId,
                    removed |-> Len(LoadData(localStorage, defaultQuestions).data.questions)
                                  - Len(r.data.questions)]
  /\ UNCHANGED pageVars

ApiAddQuestion ==
  /\ Len(LoadData(localStorage, defaultQuestions).data.questions) < MaxKeptQuestions
  /\ \E unitId \in UnitIdArgs, text \in Texts :
       \E r \in {AddQuestion(localStorage, defaultQuestions,
                            [unitId |-> unitId, text |-> text])} :
          /\ localStorage' = r.storage
          /\ ev' = [op |-> "addQuestion"]
  /\ UNCHANGED pageVars

ApiUpdateQuestion ==
  /\ \E questionId \in QuestionIdArgs, unitId \in UnitIdArgs, text \in Texts :
       \E r \in {UpdateQuestion(localStorage, defaultQuestions, questionId,
                               [unitId |-> unitId, text |-> text])} :
          /\ localStorage' = r.storage
          /\ ev' = [op |-> "updateQuestion"]
  /\ UNCHANGED pageVars

ApiDeleteQuestion ==
  /\ \E questionId \in QuestionIdArgs :
       \E r \in {DeleteQuestion(localStorage, defaultQuestions, questionId)} :
          /\ localStorage' = r.storage
          /\ ev' = [op |-> "deleteQuestion"]
  /\ UNCHANGED pageVars

ApiToggleQuestion ==
  /\ \E questionId \in QuestionIdArgs :
       \E r \in {ToggleQuestion(localStorage, defaultQuestions, questionId)} :
          /\ localStorage' = r.storage
          /\ ev' = [op |-> "toggleQuestion", id |-> questionId,
                    again |-> ev.op = "toggleQuestion" /\ ev.id = questionId]
  /\ UNCHANGED pageVars

ApiResetToDefault ==
  \E r \in {ResetToDefault(localStorage, defaultQuestions)} :
     /\ localStorage' = r.storage
     /\ ev' = [op |-> "resetToDefault", data |-> r.data]
     /\ UNCHANGED pageVars

StorageNext ==
  \/ ApiLoadData
  \/ ApiAddUnit
  \/ ApiUpdateUnit
  \/ ApiDeleteUnit
  \/ ApiAddQuestion
  \/ ApiUpdateQuestion
  \/ ApiDeleteQuestion
  \/ ApiToggleQuestion
  \/ ApiResetToDefault

StorageSpec == StorageInit /\ [][StorageNext]_vars

\* ------------------------------------------------------------- properties
Answered == Cardinality({i \in DOMAIN acceptedAt : acceptedAt[i] > 0})
Chains == {t \in BagToSet(timers) : t.kind \in {"score", "feedback"}}
\* the number of questions the running session was started with
SessionN == Len(acceptedAt)

\* C1: while one callback stays registered, two consecutive invocations of it
\* are at least DEBOUNCE_MS apart (gap -1: no invocation since it was
\* registered); a sample inside the window is not delivered
C1_DebounceGap ==
  ev.op = "result" /\ ev.invoked => ev.gap = -1 \/ ev.gap >= DEBOUNCE_MS
C1_Witness ==
  ev.op = "result" /\ ev.invoked /\ ev.gap >= DEBOUNCE_MS

\* C2: a gesture handed to handleTiltSelection while isAnswering is false
\* changes no session field and schedules no timer
C2_RejectedGestureInert ==
  [][(ev'.op = "result" /\ ev'.invoked /\ ~state.isAnswering)
       => (state' = state /\ timers' = timers)]_vars
C2_Witness ==
  ev.op = "result" /\ ev.invoked /\ ~ev.answering

\* C3: for every question of the session at most one gesture is accepted
C3_OnePerQuestion ==
  \A i \in DOMAIN acceptedAt : acceptedAt[i] <= 1

\* C4: the scoring timeout of an accepted gesture adds exactly 1 to score if
\* the gesture's direction is the question's correctSide and nothing
\* otherwise, and starts the matching presentation
C4_ScoredIffCorrect ==
  ev.op = "scored" =>
    /\ ev.delta = (IF ev.dir = ev.side THEN 1 ELSE 0)
    /\ ev.feedback = (IF ev.dir = ev.side THEN "showCorrectFeedback"
                      ELSE "showWrongFeedback")
    /\ \E t \in BagToSet(timers) :
         /\ t.kind = "feedback"
         /\ t.rem = (IF ev.dir = ev.side THEN CORRECT_FEEDBACK_MS
                     ELSE WRONG_FEEDBACK_MS)
C4_Witness ==
  ev.op = "scored" /\ ev.delta = 1 /\ ev.dir = ev.side

\* C5: within a session currentQuestionIndex changes only by +1 and only in
\* the feedback callback of the gesture accepted for the current question,
\* and isAnswering is not set while that question's scoring delay or
\* feedback is still pending
C5_AdvanceOnlyOnOwnFeedback ==
  [][/\ (state'.currentQuestionIndex # state.currentQuestionIndex
           /\ ev'.op \notin {"startGame", "reload"})
          => /\ ev'.op = "feedbackDone"
             /\ state'.currentQuestionIndex = state.currentQuestionIndex + 1
             /\ ev'.g = calls.game
             /\ ev'.q = state.currentQuestionIndex
     /\ (\E t \in BagToSet(timers') :
            /\ t.kind \in {"score", "feedback"}
            /\ t.g = calls'.game
            /\ t.q = state'.currentQuestionIndex)
          => ~state'.isAnswering]_vars

\* C6: a session of N >= 1 questions is finalized with totalAnswered = N by
\* the feedback callback that moves past its last question, and it has been
\* finalized once every question has an accepted gesture and no scoring or
\* feedback timeout is pending
C6_AllAnsweredFinishes ==
  /\ (ev.op = "feedbackDone" /\ ev.endsGame /\ ~ev.ended
        /\ Answered = SessionN)
       => /\ state.currentScreen = "results"
          /\ finalResult.totalAnswered = SessionN
  /\ (SessionN >= 1 /\ Answered = SessionN /\ Chains = {})
       => /\ finalResult # NoResult
          /\ state.currentQuestionIndex >= SessionN
C6_Witness ==
  /\ ev.op = "feedbackDone" /\ ev.endsGame /\ ~ev.ended
  /\ SessionN = MaxQuestions
  /\ Answered = SessionN
  /\ state.score < SessionN
  /\ finalResult.totalAnswered = SessionN

\* C7: when the end-session button runs endGame after gestures have been
\* accepted for k < N questions, totalAnswered is k
C7_EarlyEndCountsAnswered ==
  ev.op = "endGameClicked" /\ Answered < SessionN
    => finalResult.totalAnswered = Answered

\* C8: once endGame has run, a scoring timeout or feedback callback scheduled
\* before it by the same session changes neither score nor
\* currentQuestionIndex, does not set isAnswering and does not run endGame
C8_StaleCallbackInert ==
  [][(ev'.op \in {"scored", "feedbackDone"} /\ ev'.ended /\ ev'.g = calls.game)
       => /\ state'.score = state.score
          /\ state'.currentQuestionIndex = state.currentQuestionIndex
          /\ state'.isAnswering = state.isAnswering
          /\ finalResult' = finalResult]_vars

\* C9: a detector result dispatched before stopTracking and delivered after it
\* never invokes a tilt callback
C9_StoppedResultDiscarded ==
  ev.op = "result" /\ ev.late = "stopped" => ~ev.invoked

\* C10: once endGame has finalized the session, no gesture is accepted and
\* score no longer changes
C10_NothingScoredAfterEnd ==
  [][(finalResult # NoResult /\ finalResult' # NoResult)
       => (state'.score = state.score /\ acceptedAt' = acceptedAt)]_vars

\* C11: isAnswering is true only while the session awaits the answer of the
\* current question: it is false while the scoring delay or feedback of the
\* current question is pending, false on the results screen, and whenever it
\* is true currentQuestionIndex < Len(questions)
C11_AnsweringOnlyWhileAwaiting ==
  /\ state.isAnswering => state.currentQuestionIndex < Len(state.questions)
  /\ state.currentScreen = "results" => ~state.isAnswering
  /\ (\E t \in Chains : t.g = calls.game /\ t.q = state.currentQuestionIndex)
       => ~state.isAnswering

\* C12: for totalAnswered > 0 and 0 <= score <= totalAnswered endGame selects
\* exactly one of the four tiers: the top one iff percentage >= 90, the second
\* iff 70 <= percentage < 90, the third iff 50 <= percentage < 70, the lowest
\* iff percentage < 50; 10 of 10 selects the top tier
C12_TierBands ==
  LET sc == finalResult.score
      total == finalResult.totalAnswered
      tier == finalResult.tier
  IN (finalResult # NoResult /\ total > 0 /\ 0 <= sc /\ sc <= total) =>
       /\ tier \in {"amazing", "great", "good", "keep"}
       /\ (tier = "amazing") <=> (sc * 100 >= 90 * total)
       /\ (tier = "great") <=> (sc * 100 >= 70 * total /\ sc * 100 < 90 * total)
       /\ (tier = "good") <=> (sc * 100 >= 50 * total /\ sc * 100 < 70 * total)
       /\ (tier = "keep") <=> (sc * 100 < 50 * total)
       /\ (sc = 10 /\ total = 10) => tier = "amazing"
C12_Witness ==
  /\ finalResult.score = 9 /\ finalResult.totalAnswered = 10
  /\ finalResult.tier = "amazing"
  /\ state.currentScreen = "results"

\* C13: endGame with totalAnswered = 0 selects the neutral result, none of the
\* four percentage tiers, and divides by no zero (percentage is 0)
C13_NoAnswersNeutral ==
  (finalResult # NoResult /\ finalResult.totalAnswered = 0) =>
    /\ finalResult.tier = "none"
    /\ finalResult.percentage.den # 0
    /\ finalResult.percentage.num = 0
C13_Witness ==
  /\ state.currentScreen = "results"
  /\ finalResult.totalAnswered = 0
  /\ finalResult.tier = "none"

\* C14: after setTiltCallback(cb), alone or after clearTiltCallback, the next
\* tilt sample (left or right) invokes cb at once, however recently a
\* callback was invoked before
C14_FreshCallbackFiresAtOnce ==
  (ev.op = "result" /\ ev.dir # "none" /\ ev.registered /\ ev.gap = -1)
    => (ev.invoked /\ ev.callee = lastSet)
C14_Witness ==
  /\ ev.op = "result" /\ ev.dir # "none" /\ ev.registered /\ ev.gap = -1
  /\ ev.invoked
  /\ ev.recent # NotRecent

\* C15: after clearTiltCallback no callback is invoked for any sample until
\* setTiltCallback is called again, and no debounce timeout stays pending
C15_ClearedSlotSilent ==
  /\ lastSet = "null" => (onTiltCallback = "null" /\ tiltDebounceTimer = NoTimer)
  /\ (ev.op = "result" /\ lastSet = "null") => ~ev.invoked
C15_Witness ==
  /\ ev.op = "result" /\ ev.dir # "none" /\ ~ev.invoked
  /\ lastSet = "null"
  /\ ev.recent # NotRecent

\* C16: the slot holds one consumer: once setTiltCallback(g) has replaced f,
\* every invocation goes to g, the last callback registered
C16_OnlyLastRegisteredInvoked ==
  /\ onTiltCallback = lastSet
  /\ (ev.op = "result" /\ ev.invoked) => ev.callee = lastSet
C16_Witness ==
  /\ ev.op = "result" /\ ev.invoked /\ ev.callee = "g" /\ ev.gap = -1
  /\ ev.recent # NotRecent
  /\ lastSet = "g" /\ replaced = "f"

\* C17: a tilt sample inside the debounce window is dropped for good: it
\* invokes nothing and leaves the window as it is, and the expiry of the
\* window invokes nothing; a callback is invoked only by a new tilt sample
C17_DroppedSampleNotReplayed ==
  [][/\ (ev'.op = "result" /\ tiltDebounceTimer # NoTimer)
          => /\ ~ev'.invoked
             /\ tiltDebounceTimer' = tiltDebounceTimer
             /\ lastEmit' = lastEmit /\ sinceEmit' = sinceEmit
             /\ state' = state /\ timers' = timers
     /\ ev'.op = "debounceExpired"
          => /\ tiltDebounceTimer' = NoTimer
             /\ lastEmit' = lastEmit /\ sinceEmit' = sinceEmit
             /\ state' = state /\ timers' = timers
     /\ (sinceEmit' = 0 /\ sinceEmit # 0)
          => (ev'.op = "result" /\ ev'.dir # "none")]_vars
C17_Witness ==
  /\ ev.op = "result" /\ ev.dir # "none" /\ ev.registered /\ ~ev.invoked
  /\ ev.window # NoTimer
  /\ tiltDebounceTimer = ev.window

\* C18: a tilt sample processed while no callback is registered invokes
\* nothing and starts no debounce window; with a callback registered and no
\* window pending the sample fires
C18_NoCallbackNoWindow ==
  /\ (ev.op = "result" /\ ~ev.registered)
       => (~ev.invoked /\ tiltDebounceTimer = NoTimer /\ sinceEmit = -1)
  /\ (ev.op = "result" /\ ev.dir # "none" /\ ev.registered /\ ev.window = NoTimer)
       => ev.invoked
C18_Witness ==
  /\ ev.op = "result" /\ ev.dir # "none" /\ ~ev.registered
  /\ tiltDebounceTimer = NoTimer

\* capture streams and detector instances that are active
ActiveStreams == (IF camera = "running" THEN 1 ELSE 0) + leaked
ActiveDetectors == IF faceMesh THEN 1 ELSE 0

\* C19: whenever an initFaceTracking promise resolves successfully (and
\* stopTracking has not run), exactly one capture stream and one detector
\* instance are active, those of the last call, and no stream of an earlier
\* camera is, whatever calls came before or overlapped
C19_OnePairAfterInit ==
  (ev.op = "startSettled" /\ ev.ok /\ state.currentScreen # "results")
    => (camera = "running" /\ ActiveStreams = 1 /\ ActiveDetectors = 1)

\* C20: when stopTracking has returned (endGame), no capture stream and no
\* detector instance is active and isTracking is false
C20_NothingActiveAfterStop ==
  (ev.op = "endGameClicked" \/ (ev.op = "feedbackDone" /\ ev.endsGame))
    => (~isTracking /\ ActiveStreams = 0 /\ ActiveDetectors = 0)

\* C21: stopTracking on a session that is already stopped or was never
\* started (not tracking, no callback, no debounce timer, no camera starting
\* or running) leaves the module state as it found it
Stopped(m) ==
  /\ ~m.isTracking
  /\ m.onTiltCallback = "null"
  /\ m.tiltDebounceTimer = NoTimer
  /\ m.camera \in {"null", "stopped", "startingStopped", "failed"}
C22_NothingHeldAfterReject ==
  (\/ ev.op = "initFaceTracking" /\ ev.settled /\ ~ev.ok
   \/ ev.op = "startSettled" /\ ~ev.ok /\ ev.current)
    => (~faceMesh /\ camera = "null")

\* C23: once the initFaceTracking call of startGame has failed, no tilt
\* callback is registered and no question awaits an answer
C23_FailedInitStartsNothing ==
  (\/ ev.op = "startGame" /\ ~InitAcquires
   \/ ev.op = "startSettled" /\ ~ev.ok /\ ev.waiter = "game")
    => (onTiltCallback = "null" /\ ~state.isAnswering)

\* C24: a startGame call that finds no eligible question leaves the session
\* fields (questions, currentQuestionIndex, score, isAnswering) and the
\* screen as they were, starts no camera and registers no callback
C24_EmptyStartCreatesNothing ==
  [][ev'.op = "startGameEmpty"
       => (state' = state /\ camera' = camera /\ onTiltCallback' = onTiltCallback
           /\ timers' = timers)]_vars

\* C25: a frame the capture delivers while isTracking is false is not handed
\* to the detector: no detector result is pending after it
C25_UntrackedFrameDropped ==
  (ev.op = "frame" /\ ~isTracking) => (~ev.sent /\ inflight = "none")
C25_Witness ==
  ev.op = "frame" /\ ~isTracking /\ faceMesh /\ ~ev.sent /\ inflight = "none"

\* C26: the initFaceTracking promise of the camera in the slot does not stay
\* pending forever: it is settled, or a later call takes the slot over, also
\* when the capture device never answers
C26_InitSettles ==
  (slotWaiter # NoWaiter) ~> (slotWaiter = NoWaiter \/ ev.op = "initFaceTracking")

\* C27: a sample's direction is right exactly when its angle is below
\* -TILT_THRESHOLD, left exactly when it is above TILT_THRESHOLD, and none
\* otherwise; 12 and -12 degrees are none
C27_ClassifyBands ==
  ev.op = "classified" =>
    /\ ev.dir \in {"left", "right", "none"}
    /\ ev.dir = "right" <=> ev.angle < -TILT_THRESHOLD
    /\ ev.dir = "left" <=> ev.angle > TILT_THRESHOLD
    /\ ev.angle \in {12, -12} => ev.dir = "none"
C27_Witness ==
  ev.op = "classified" /\ ev.angle = -12 /\ ev.dir = "none"

\* C28: a detector result without face landmarks has direction none: the
\* callback is not invoked and the debounce timer stays as it was
C28_NoFaceNoEffect ==
  (ev.op = "result" /\ ~ev.face)
    => (ev.dir = "none" /\ ~ev.invoked /\ tiltDebounceTimer = ev.window)
C28_Witness ==
  ev.op = "result" /\ ~ev.face /\ ev.registered /\ ev.window # NoTimer
    /\ ~ev.invoked /\ tiltDebounceTimer = ev.window

\* C29: a call of showCorrectFeedback or showWrongFeedback schedules exactly
\* one run of its callback, every run of a callback consumes one scheduled
\* run, nothing else schedules or drops one, and a scheduled run happens
PendingFeedback == {t \in BagToSet(timers) : t.kind = "feedback"}
PendingFeedbackCount ==
  BagCardinality([t \in PendingFeedback |-> CopiesIn(t, timers)])
C29_FeedbackCallsBackOnce ==
  /\ [][/\ ev'.op = "scored" => PendingFeedbackCount' = PendingFeedbackCount + 1
        /\ ev'.op = "feedbackDone" => PendingFeedbackCount' = PendingFeedbackCount - 1
        /\ ev'.op \notin {"scored", "feedbackDone"}
             => PendingFeedbackCount' = PendingFeedbackCount]_vars
  /\ \A q \in 0..(MaxQuestions - 1) :
       (\E t \in PendingFeedback : t.q = q) ~> (ev.op = "feedbackDone" /\ ev.q = q)
C29_Witness ==
  ev.op = "feedbackDone" /\ PendingFeedbackCount = 0 /\ state.currentQuestionIndex = 1

\* C30: getGameQuestions returns stored questions only, none disabled, all
\* of a unit in unitIds when unitIds is given, none twice, at most limit of
\* them when limit > 0; without shuffle they come in stored order and no
\* eligible question is skipped before the last one returned
Wanted(q, unitIds) ==
  ~q.disabled /\ (unitIds = NullUnitIds \/ q.unitId \in unitIds)
C30_GameQuestionsFiltered ==
  ev.op = "getGameQuestions" =>
    LET r == ev.result
        n == Len(ev.result)
    IN /\ \A i \in 1..n :
            /\ r[i].id \in 1..Len(ev.stored)
            /\ r[i] = ev.stored[r[i].id]
            /\ Wanted(r[i], ev.unitIds)
       /\ \A i, j \in 1..n : i # j => r[i].id # r[j].id
       /\ (ev.limit # NullLimit /\ ev.limit > 0) => n <= ev.limit
       /\ ~ev.shuffle =>
            /\ \A i, j \in 1..n : i < j => r[i].id < r[j].id
            /\ \A i \in 1..n : \A k \in 1..r[i].id :
                 Wanted(ev.stored[k], ev.unitIds) => \E j \in 1..i : r[j].id = k
C30_Witness ==
  /\ ev.op = "getGameQuestions" /\ ~ev.shuffle /\ ev.limit = 1
  /\ ev.unitIds = {"u2"} /\ Len(ev.stored) = 3
  /\ ev.stored[1].unitId = "u1" /\ ev.stored[2].disabled
  /\ Len(ev.result) = 1 /\ ev.result[1].id = 3

\* C31: the prepared questions of a session are not modified while it runs:
\* state.questions changes only when startGame starts a session or the page
\* is reloaded
C31_PreparedSequenceKept ==
  [][state'.questions # state.questions => ev'.op \in {"startGame", "reload"}]_vars

\* C32: in every result endGame has rendered, the score is at most the
\* number of questions counted as answered
C32_ScoreWithinAnswered ==
  finalResult # NoResult => finalResult.score <= finalResult.totalAnswered

\* C33: the question index and the score stay between 0 and the number of
\* questions of the session
C33_IndexAndScoreInRange ==
  /\ 0 <= state.currentQuestionIndex
  /\ state.currentQuestionIndex <= Len(state.questions)
  /\ 0 <= state.score
  /\ state.score <= Len(state.questions)

\* C34: end-game clicked while startGame awaits initFaceTracking or its start
\* delay: from then on, on the results screen, tracking is off, no callback
\* is registered, and the continuation of that startGame does not set
\* isAnswering
EndedWhileStarting ==
  \/ slotWaiter.who = "game" /\ slotWaiter.ended
  \/ \E w \in BagToSet(orphans) : w.who = "game" /\ w.ended
  \/ \E t \in BagToSet(timers) : t.kind = "startDelay" /\ t.ended
C34_EndDuringStartStaysEnded ==
  /\ (state.currentScreen = "results" /\ EndedWhileStarting)
       => (~isTracking /\ onTiltCallback = "null")
  /\ (state.currentScreen = "results" /\ ev.op = "startGameResumed" /\ ev.ended)
       => (~isTracking /\ onTiltCallback = "null" /\ ~state.isAnswering)

\* C35: the completion of the start() of a camera that is no longer held in
\* the module slot does not turn tracking on
C35_SupersededStartInert ==
  [][(ev'.op = "startSettled" /\ ~ev'.current) => isTracking' = isTracking]_vars

\* C36: while a tilt is held during a running session, every question is
\* eventually answered and the results screen is eventually reached; a
\* gesture the isAnswering guard rejects does not keep later ones out
AllAnswered == \A i \in DOMAIN acceptedAt : acceptedAt[i] > 0
C39_TimerImpliesCallback ==
  tiltDebounceTimer # NoTimer => onTiltCallback # "null"
C39_Witness ==
  /\ ev.op = "clearTiltCallback" /\ ev.replaced # "null"
  /\ lastEmit # NotRecent /\ lastEmit < DEBOUNCE_MS
  /\ tiltDebounceTimer = NoTimer /\ onTiltCallback = "null"

\* the questions of `after` are those of `before` but for the disabled flag
\* of the question at position i, which is the opposite
FlippedAt(before, after, i) ==
  /\ after.units = before.units
  /\ Len(after.questions) = Len(before.questions)
  /\ \A j \in DOMAIN before.questions :
       after.questions[j] =
         IF j = i THEN [before.questions[j] EXCEPT !.disabled = ~@]
         ELSE before.questions[j]

\* C40 as stated: toggleQuestion(id) on an existing id changes nothing in the
\* stored data but that question's disabled flag, a second toggleQuestion(id)
\* restores the stored data, and on an unknown id the stored data stay as
\* they were
C40_ToggleOnStoredData ==
  [][ev'.op = "toggleQuestion" =>
       IF ev'.id \in StoredQuestionIds(localStorage)
       THEN /\ localStorage'.legacy = localStorage.legacy
            /\ localStorage'.data # NoItem
            /\ FlippedAt(localStorage.data[1], localStorage'.data[1],
                         FindById(localStorage.data[1].questions, ev'.id))
            /\ ToggleQuestion(localStorage', defaultQuestions, ev'.id).storage
                 = localStorage
       ELSE localStorage' = localStorage]_vars

\* C40, amended: toggleQuestion(id) on an id of the data loadData returns
\* stores that data with nothing changed but that question's disabled flag,
\* a second toggleQuestion(id) stores the data loadData returned, and on an
\* unknown id nothing is stored but what loadData itself stores
C40_ToggleOnLoadedData ==
  [][ev'.op = "toggleQuestion" =>
       \A l \in {LoadData(localStorage, defaultQuestions)} :
         IF FindById(l.data.questions, ev'.id) # 0
         THEN /\ localStorage'.legacy = l.storage.legacy
              /\ localStorage'.data # NoItem
              /\ FlippedAt(l.data, localStorage'.data[1],
                           FindById(l.data.questions, ev'.id))
              /\ ToggleQuestion(localStorage', defaultQuestions, ev'.id).storage
                   = SaveData(l.storage, l.data)
         ELSE localStorage' = l.storage]_vars

\* the same question was toggled twice in a row and is stored
C40_Witness ==
  /\ ev.op = "toggleQuestion"
  /\ ev.again
  /\ ev.id \in StoredQuestionIds(localStorage)
  /\ Len(localStorage.data[1].questions) = MaxKeptQuestions

\* the names of the units and the texts of the questions, in order
NamesOf(units) == [i \in DOMAIN units |-> units[i].name]
TextsOf(questions) == [i \in DOMAIN questions |-> questions[i].text]

\* C37: a load that finds a stored item whose question list is empty, the
\* bundle having questions, returns the bundled units and questions (a list
\* that is not empty) under new unit ids, and leaves exactly that data stored
C37_EmptyListRebuilt ==
  (/\ ev.op = "loadData"
   /\ ev.was # NoItem
   /\ Len(ev.was[1].questions) = 0
   /\ CountDefaultQuestions(defaultQuestions) > 0)
  => /\ Len(ev.data.questions) > 0
     /\ localStorage.data = <<ev.data>>
     /\ NamesOf(ev.data.units) = NamesOf(defaultQuestions.units)
     /\ TextsOf(ev.data.questions) = TextsOf(defaultQuestions.questions)
     /\ \A i \in DOMAIN ev.data.units, j \in DOMAIN ev.was[1].units :
          ev.data.units[i].id # ev.was[1].units[j].id
     /\ \A i \in DOMAIN ev.data.questions :
          \E j \in DOMAIN ev.data.units : ev.data.questions[i].unitId = ev.data.units[j].id

\* the load after the last question of two stored units was deleted
C37_Witness ==
  /\ ev.op = "loadData"
  /\ ev.was # NoItem
  /\ Len(ev.was[1].questions) = 0
  /\ Len(ev.was[1].units) = MaxKeptUnits
  /\ CountDefaultQuestions(defaultQuestions) > 0
  /\ Len(ev.data.questions) > 0

\* data has a unit, and every question of it is in one of its units
WellFormed(data) ==
  /\ Len(data.units) >= 1
  /\ \A i \in DOMAIN data.questions :
       \E j \in DOMAIN data.units : data.questions[i].unitId = data.units[j].id

\* C38: whatever exported functions were called, the data loadData returns
\* have at least one unit and every question is in an existing unit; and
\* deleteUnit(u) stores the data loadData returned without the unit u and
\* without the questions of u, every other unit and question as it was and
\* in its place
C38_UnitsAndQuestionsConsistent ==
  /\ [](WellFormed(LoadData(localStorage, defaultQuestions).data))
  /\ [][ev'.op = "deleteUnit" =>
          \A l \in {LoadData(localStorage, defaultQuestions).data} :
            /\ localStorage'.data # NoItem
            /\ localStorage'.data[1].units =
                 SelectSeq(l.units, LAMBDA u : u.id # ev'.id)
            /\ localStorage'.data[1].questions =
                 SelectSeq(l.questions, LAMBDA q : q.unitId # ev'.id)]_vars

\* deleteUnit removed the one question of a unit and left the other unit
\* with its question
C38_Witness ==
  /\ ev.op = "deleteUnit"
  /\ ev.removed = 1
  /\ Len(localStorage.data[1].units) = 1
  /\ Len(localStorage.data[1].questions) = 1

====
